---------------------------- MODULE Spec2Model ----------------------------
(***************************************************************************)
(* A model of shudder/queue.py: the SQS channel of one instance, the       *)
(* message filter should_terminate, the poll step poll_queue, and the      *)
(* lifecycle signals record_lifecycle_action_heartbeat and                 *)
(* complete_lifecycle_action.                                              *)
(*                                                                         *)
(* Python evaluates the argument of logging.info before the call, so a     *)
(* statement  logging.info('text' + x)  raises TypeError whenever x is not *)
(* a str.  queue.py has such statements at lines 41, 47, 61, 78, 92, 94    *)
(* and 147, with x a dict, a parsed JSON value or a boto3 resource: they   *)
(* are part of the control flow of the functions and are modelled as such. *)
(***************************************************************************)
EXTENDS Integers, Sequences, FiniteSets, TLC

(***************************************************************************)
(* Bounds of the model.                                                    *)
(***************************************************************************)
\* message slots of the channel: how many deliveries a run holds
MaxMsgs == 3
\* the largest batch one receive_messages call returns
MaxBatch == 2
\* the longest cleanup, in heartbeat intervals
MaxCleanup == 3
\* how many times create_queue, and subscribe_sns, run
MaxRuns == 2

(***************************************************************************)
(* Values.                                                                 *)
(***************************************************************************)
\* queue.py:29, the identity of this instance
INSTANCE_ID == "i-self"

\* queue.py:95
termination_msg == "autoscaling:EC2_INSTANCE_TERMINATING"

InstanceIds == {INSTANCE_ID, "i-other"}
Transitions == {termination_msg, "autoscaling:EC2_INSTANCE_LAUNCHING"}
HookNames == {"hook-a", "hook-b"}
GroupNames == {"asg-a", "asg-b"}
Tokens == {"tok-1", "tok-2"}

\* What json.loads can yield, as far as queue.py tells values apart: a dict,
\* a str, or anything else (list, number, bool, None).  "garbage" is a text
\* that json.loads rejects.
JsonKinds == {"garbage", "str", "other", "dict"}

\* The text msg.body of an SQS message.  A text is represented by what it
\* parses to: outer is the kind of json.loads(msg.body); when that is a dict,
\* hasMessage says whether it has the key 'Message', whose value is again a
\* text, of kind inner; when that is a dict, the has* fields say which keys
\* it holds and the other fields are their values.
Body(outer, hasMessage, inner, hasTransition, transition, hasId, id, hook, group, token) ==
    [outer |-> outer, hasMessage |-> hasMessage, inner |-> inner,
     hasTransition |-> hasTransition, transition |-> transition,
     hasId |-> hasId, id |-> id, hook |-> hook, group |-> group, token |-> token]

\* texts whose inner body is not a dict: the fields below it do not exist
PlainBody(outer, hasMessage, inner) ==
    Body(outer, hasMessage, inner, FALSE, "", FALSE, "", "", "", "")

\* the notification of a lifecycle transition, as SNS delivers it to SQS
Notification(hasTransition, transition, hasId, id, hook, group, token) ==
    Body("dict", TRUE, "dict", hasTransition, transition, hasId, id, hook, group, token)

MalformedBodies ==
    {PlainBody("garbage", FALSE, "garbage"),
     PlainBody("str", FALSE, "garbage"),
     PlainBody("other", FALSE, "garbage"),
     PlainBody("dict", FALSE, "garbage"),
     PlainBody("dict", TRUE, "garbage"),
     PlainBody("dict", TRUE, "str"),
     PlainBody("dict", TRUE, "other")}

WellFormedBodies ==
    {Notification(ht, IF ht THEN t ELSE "", hi, IF hi THEN i ELSE "", h, g, k) :
        ht \in BOOLEAN, t \in Transitions, hi \in BOOLEAN, i \in InstanceIds,
        h \in HookNames, g \in GroupNames, k \in Tokens}

Messages == MalformedBodies \cup WellFormedBodies

\* a well-formed notification of this instance's termination
IsSelfTermination(b) ==
    /\ b.outer = "dict" /\ b.hasMessage /\ b.inner = "dict"
    /\ b.hasTransition /\ b.transition = termination_msg
    /\ b.hasId /\ b.id = INSTANCE_ID

\* The dict json.loads(first_box['Message']) of a notification: the value
\* should_terminate returns on a match and the signals read their arguments
\* from.  present = FALSE stands for None / False.
LifecycleEvent(b) ==
    [present |-> TRUE,
     LifecycleTransition |-> b.transition,
     EC2InstanceId |-> b.id,
     LifecycleHookName |-> b.hook,
     AutoScalingGroupName |-> b.group,
     LifecycleActionToken |-> b.token]

NoEvent ==
    [present |-> FALSE, LifecycleTransition |-> "", EC2InstanceId |-> "",
     LifecycleHookName |-> "", AutoScalingGroupName |-> "",
     LifecycleActionToken |-> ""]

(***************************************************************************)
(* Outcomes of a call: a return value or a raised exception with the line  *)
(* that raised it.                                                         *)
(***************************************************************************)
Return(v) == [kind |-> "return", exc |-> "", line |-> 0, value |-> v]
Raise(e, l) == [kind |-> "raise", exc |-> e, line |-> l, value |-> NoEvent]
NotCalled == [kind |-> "none", exc |-> "", line |-> 0, value |-> NoEvent]

\* Python's truth value of a returned value: a non-empty dict is truthy,
\* None and False are not
Truthy(o) == o.kind = "return" /\ o.value.present

\* 'text' + x: str.__add__ accepts a str only; dict, list, None and boto3
\* resource objects define no __radd__, so the expression raises TypeError
StrConcatOk(kind) == kind = "str"


(***************************************************************************)
(* State.                                                                  *)
(***************************************************************************)
VARIABLES
    body,        \* slot -> the text of the message delivered into the slot
    st,          \* slot -> "absent" | "visible" | "inflight" | "deleted"
    delCount,    \* slot -> number of message.delete() calls on the message
    lastBatch,   \* the batch the latest receive_messages call returned
    lastResult,  \* the outcome of the latest poll_queue call
    polls,       \* whether poll_queue has been called at all
    termReceived, \* a receive has returned a notification of this instance's termination
    loop,        \* the state of the poll loop that calls poll_queue
    event,       \* the LifecycleEvent the loop matched, NoEvent before
    matches,     \* how many times the loop entered Matched
    calls,       \* the lifecycle-hook API calls made, in order
    cleanupLen,  \* the duration of the cleanup, in heartbeat intervals
    cleanupLeft, \* the intervals the cleanup still runs
    queueExists, \* the SQS queue exists
    subscribed,  \* the SNS subscription exists
    teardown,    \* the outcome of the clean_up_sns call
    cls_msg,     \* the argument of a direct should_terminate call
    cls_out,     \* its outcome
    tagsKind,    \* CONFIG['queue_tags']: "none" (no such key), "dict" or "str"
    tagged,      \* the queue carries the configured tags
    policy,      \* the Policy attribute of the queue
    policy0,     \* the Policy attribute before the first subscribe_sns run
    create_out,  \* the outcome of the latest create_queue call
    sub_out,     \* the outcome of the latest subscribe_sns call
    createRuns,  \* how many times create_queue has run
    subRuns,     \* how many times subscribe_sns has run
    provCalls    \* the service calls create_queue and subscribe_sns made, in order

vars == <<body, st, delCount, lastBatch, lastResult, polls, termReceived, loop, event, matches,
          calls, cleanupLen, cleanupLeft, queueExists, subscribed, teardown,
          cls_msg, cls_out, tagsKind, tagged, policy, policy0, create_out, sub_out,
          createRuns, subRuns, provCalls>>

chanVars == <<body, st, delCount, lastBatch, lastResult, polls, termReceived>>
loopVars == <<loop, event, matches>>
termVars == <<calls, cleanupLen, cleanupLeft, queueExists, subscribed, teardown>>
clsVars == <<cls_msg, cls_out>>
provVars == <<tagsKind, tagged, policy, policy0, create_out, sub_out,
              createRuns, subRuns, provCalls>>

Slots == 1..MaxMsgs

(***************************************************************************)
(* should_terminate, queue.py:89-101.                                      *)
(***************************************************************************)
should_terminate(b) ==
    \* 91: first_box = json.loads(msg.body)
    IF b.outer = "garbage" THEN Raise("ValueError", 91)
    \* 92: logging.info('Message raw:' + first_box)
    ELSE IF ~StrConcatOk(b.outer) THEN Raise("TypeError", 92)
    \* 93: first_box['Message'] on a value that is no dict
    ELSE IF b.outer # "dict" THEN Raise("TypeError", 93)
    ELSE IF ~b.hasMessage THEN Raise("KeyError", 93)
    \* 93: message = json.loads(first_box['Message'])
    ELSE IF b.inner = "garbage" THEN Raise("ValueError", 93)
    \* 94: logging.info('SQS Message:' + message)
    ELSE IF ~StrConcatOk(b.inner) THEN Raise("TypeError", 94)
    \* 97: 'LifecycleTransition' in message, on a str a substring test
    ELSE IF b.inner # "dict" THEN Return(NoEvent)
    ELSE IF ~(b.hasTransition /\ b.transition = termination_msg) THEN Return(NoEvent)
    \* 97: message['EC2InstanceId']
    ELSE IF ~b.hasId THEN Raise("KeyError", 97)
    ELSE IF INSTANCE_ID = b.id THEN Return(LifecycleEvent(b))
    ELSE Return(NoEvent)

\* poll_queue with line 150 returning True where the code returns False
PyTrue ==
    [present |-> TRUE, LifecycleTransition |-> "", EC2InstanceId |-> "",
     LifecycleHookName |-> "", AutoScalingGroupName |-> "",
     LifecycleActionToken |-> ""]

poll_queue_returns_true(messages, bodies) ==
    IF messages = <<>>
    THEN [outcome |-> Return(PyTrue), deleted |-> <<>>]
    ELSE IF ~StrConcatOk("sqs.Message")
    THEN [outcome |-> Raise("TypeError", 147), deleted |-> <<>>]
    ELSE [outcome |-> should_terminate(bodies[Head(messages)]),
          deleted |-> <<Head(messages)>>]

(***************************************************************************)
(* poll_queue, queue.py:142-150, on the batch `messages` (slots, in the    *)
(* order receive_messages returned them) with the texts `bodies`.          *)
(* outcome: what the call returns or raises; deleted: the messages it      *)
(* called delete() on, in order.                                           *)
(***************************************************************************)
poll_queue(messages, bodies) ==
    \* 145: the loop body does not run on an empty batch; 150: return False
    IF messages = <<>>
    THEN [outcome |-> Return(NoEvent), deleted |-> <<>>]
    \* 147: logging.info('Polled message: ' + message), message an sqs.Message
    ELSE IF ~StrConcatOk("sqs.Message")
    THEN [outcome |-> Raise("TypeError", 147), deleted |-> <<>>]
    \* 148: message.delete(); 149: return should_terminate(message): the
    \* first message of the batch ends the call
    ELSE [outcome |-> should_terminate(bodies[Head(messages)]),
          deleted |-> <<Head(messages)>>]

(***************************************************************************)
(* The lifecycle signals, queue.py:111-139: the API call each one makes.   *)
(***************************************************************************)
record_lifecycle_action_heartbeat(message) ==
    [api |-> "record_lifecycle_action_heartbeat",
     LifecycleHookName |-> message.LifecycleHookName,
     AutoScalingGroupName |-> message.AutoScalingGroupName,
     LifecycleActionToken |-> message.LifecycleActionToken,
     LifecycleActionResult |-> "",
     InstanceId |-> message.EC2InstanceId]

\* complete_lifecycle_action with the result ABANDON in place of CONTINUE
complete_lifecycle_action_abandon(message) ==
    [api |-> "complete_lifecycle_action",
     LifecycleHookName |-> message.LifecycleHookName,
     AutoScalingGroupName |-> message.AutoScalingGroupName,
     LifecycleActionToken |-> message.LifecycleActionToken,
     LifecycleActionResult |-> "ABANDON",
     InstanceId |-> message.EC2InstanceId]

complete_lifecycle_action(message) ==
    [api |-> "complete_lifecycle_action",
     LifecycleHookName |-> message.LifecycleHookName,
     AutoScalingGroupName |-> message.AutoScalingGroupName,
     LifecycleActionToken |-> message.LifecycleActionToken,
     LifecycleActionResult |-> "CONTINUE",
     InstanceId |-> message.EC2InstanceId]


(***************************************************************************)
(* Provisioning: create_queue and subscribe_sns, queue.py:34-86.           *)
(***************************************************************************)
\* queue.py:53: md5(CONFIG['sns_topic'] + QueueArn).hexdigest(), one fixed
\* str for the one topic and the one queue of the instance
statement_id == "md5(sns_topic+QueueArn)"

\* queue.py:63
DefaultVersion == "2008-10-17"

\* A statement of a policy: whether it has a 'Sid', the Sid, and the rest of
\* it (Action, Effect, Principal, Resource, Condition) by the name of what
\* it grants.
Statement(hasSid, sid, grant) == [hasSid |-> hasSid, Sid |-> sid, grant |-> grant]

\* queue.py:71-76: the statement that lets the topic send to the queue
AllowStatement == Statement(TRUE, statement_id, "SQS:SendMessage from sns_topic")

ForeignStatement == Statement(TRUE, "other-sid", "SQS:ReceiveMessage")
UnnamedStatement == Statement(FALSE, "", "SQS:ReceiveMessage")

\* The text of the Policy attribute, represented by what json.loads makes of
\* it: kind "absent" is no attribute (None or ''), "garbage" a text that
\* json.loads rejects, "str" a JSON string, "dict" a JSON object with the
\* keys and values given.
Policy(kind, hasVersion, version, hasStatement, statements) ==
    [kind |-> kind, hasVersion |-> hasVersion, Version |-> version,
     hasStatement |-> hasStatement, Statement |-> statements]

AbsentPolicy == Policy("absent", FALSE, "", FALSE, <<>>)
EmptyPolicy == Policy("dict", FALSE, "", FALSE, <<>>)
ProvisionedPolicy == Policy("dict", TRUE, DefaultVersion, TRUE, <<AllowStatement>>)

\* the policies a queue may hold when subscribe_sns first runs on it
InitialPolicies ==
    {AbsentPolicy,
     EmptyPolicy,
     Policy("dict", TRUE, "2012-10-17", TRUE, <<>>),
     ProvisionedPolicy,
     Policy("dict", TRUE, "2012-10-17", TRUE, <<ForeignStatement>>),
     Policy("dict", TRUE, "2012-10-17", TRUE, <<ForeignStatement, AllowStatement>>),
     Policy("dict", TRUE, "2012-10-17", TRUE, <<UnnamedStatement>>),
     Policy("str", FALSE, "", FALSE, <<>>),
     Policy("garbage", FALSE, "", FALSE, <<>>)}

\* how many statements of the policy carry the derived id
NumAllow(p) ==
    Cardinality({i \in DOMAIN p.Statement :
                    p.Statement[i].hasSid /\ p.Statement[i].Sid = statement_id})

\* an absent policy, an empty one, or one that holds the allow statement
CleanStart(p) ==
    \/ p.kind = "absent"
    \/ p.kind = "dict" /\ p.Statement = <<>>
    \/ p.kind = "dict" /\ NumAllow(p) = 1

\* What a provisioning call did: its outcome, the service calls it made (in
\* order), and what these left behind.
ProvResult(outcome, made, created, tags, wrote, written, sub) ==
    [outcome |-> outcome, made |-> made, created |-> created, tagged |-> tags,
     wrote |-> wrote, written |-> written, subscribed |-> sub]

(***************************************************************************)
(* create_queue, queue.py:34-48.  tags: the kind of CONFIG['queue_tags'];  *)
(* createOk, tagOk: whether the service carries out create_queue and       *)
(* tag_queue.  tag_queue takes a dict: boto3 rejects any other Tags.       *)
(***************************************************************************)
create_queue(tags, createOk, tagOk) ==
    \* 38: conn.create_queue(QueueName=QUEUE_NAME, ...)
    IF ~createOk
    THEN ProvResult(Raise("ClientError", 38), <<"create_queue">>,
                    FALSE, FALSE, FALSE, AbsentPolicy, FALSE)
    \* 41: logging.info('Creating SQS tags: ' + CONFIG['queue_tags'])
    ELSE IF tags # "none" /\ ~StrConcatOk(tags)
    THEN ProvResult(Raise("TypeError", 41), <<"create_queue">>,
                    TRUE, FALSE, FALSE, AbsentPolicy, FALSE)
    \* 42: conn.tag_queue(QueueUrl=..., Tags=CONFIG['queue_tags'])
    ELSE IF tags # "none" /\ tags # "dict"
    THEN ProvResult(Raise("ParamValidationError", 42), <<"create_queue", "tag_queue">>,
                    TRUE, FALSE, FALSE, AbsentPolicy, FALSE)
    ELSE IF tags # "none" /\ ~tagOk
    THEN ProvResult(Raise("ClientError", 42), <<"create_queue", "tag_queue">>,
                    TRUE, FALSE, FALSE, AbsentPolicy, FALSE)
    \* 47: logging.info('queue object: ' + queue), queue an sqs.Queue
    ELSE IF ~StrConcatOk("sqs.Queue")
    THEN ProvResult(Raise("TypeError", 47),
                    IF tags = "none" THEN <<"create_queue">>
                    ELSE <<"create_queue", "tag_queue">>,
                    TRUE, tags # "none", FALSE, AbsentPolicy, FALSE)
    \* 48: return conn, queue
    ELSE ProvResult(Return(NoEvent),
                    IF tags = "none" THEN <<"create_queue">>
                    ELSE <<"create_queue", "tag_queue">>,
                    TRUE, tags # "none", FALSE, AbsentPolicy, FALSE)

(***************************************************************************)
(* subscribe_sns, queue.py:51-86, on a queue whose Policy attribute is p.  *)
(* setOk, subOk: whether the service carries out set_attributes and        *)
(* subscribe.                                                              *)
(***************************************************************************)
\* 57-60 and 62-65: the policy dict after the defaults are filled in
PolicyWithDefaults(p) ==
    Policy("dict", TRUE, IF p.kind = "dict" /\ p.hasVersion THEN p.Version ELSE DefaultVersion,
           TRUE, IF p.kind = "dict" /\ p.hasStatement THEN p.Statement ELSE <<>>)

\* 67-77: the statement is appended unless one with its Sid is there
PolicyWithStatement(q) ==
    IF \E i \in DOMAIN q.Statement : q.Statement[i].Sid = statement_id
    THEN q
    ELSE [q EXCEPT !.Statement = Append(q.Statement, AllowStatement)]

subscribe_sns(p, setOk, subOk) ==
    \* 58: policy = json.loads(existing_policy)
    IF p.kind = "garbage"
    THEN ProvResult(Raise("ValueError", 58), <<>>, FALSE, FALSE, FALSE, p, FALSE)
    \* 61: logging.info('Policy: ' + policy), policy a dict unless the
    \* attribute is the text of a JSON string
    ELSE IF ~StrConcatOk(IF p.kind = "str" THEN "str" ELSE "dict")
    THEN ProvResult(Raise("TypeError", 61), <<>>, FALSE, FALSE, FALSE, p, FALSE)
    \* 63: policy['Version'] = '2008-10-17' on a str
    ELSE IF p.kind = "str"
    THEN ProvResult(Raise("TypeError", 63), <<>>, FALSE, FALSE, FALSE, p, FALSE)
    \* 68: statement['Sid'] of a statement that has none
    ELSE IF \E i \in DOMAIN PolicyWithDefaults(p).Statement :
                ~PolicyWithDefaults(p).Statement[i].hasSid
    THEN ProvResult(Raise("KeyError", 68), <<>>, FALSE, FALSE, FALSE, p, FALSE)
    \* 78: logging.info('Policy:' + policy)
    ELSE IF ~StrConcatOk("dict")
    THEN ProvResult(Raise("TypeError", 78), <<>>, FALSE, FALSE, FALSE, p, FALSE)
    \* 79: queue.set_attributes(Attributes={'Policy': json.dumps(policy)})
    ELSE IF ~setOk
    THEN ProvResult(Raise("ClientError", 79), <<"set_attributes">>,
                    FALSE, FALSE, FALSE, p, FALSE)
    \* 83: conn.subscribe(TopicArn=CONFIG['sns_topic'], Protocol='sqs', ...)
    ELSE IF ~subOk
    THEN ProvResult(Raise("ClientError", 83), <<"set_attributes", "subscribe">>,
                    FALSE, FALSE, TRUE, PolicyWithStatement(PolicyWithDefaults(p)), FALSE)
    \* 86: return conn, sns_arn
    ELSE ProvResult(Return(NoEvent), <<"set_attributes", "subscribe">>,
                    FALSE, FALSE, TRUE, PolicyWithStatement(PolicyWithDefaults(p)), TRUE)

(***************************************************************************)
(* The channel.  The topic delivers at least once: every delivery is a     *)
(* message of its own, and the same text may be delivered again.           *)
(***************************************************************************)
\* the texts the topic delivers to the channel in the poll specification
PollBodies ==
    {Notification(TRUE, termination_msg, TRUE, INSTANCE_ID, "hook-a", "asg-a", "tok-1"),
     Notification(TRUE, termination_msg, TRUE, "i-other", "hook-a", "asg-a", "tok-2"),
     PlainBody("dict", TRUE, "garbage"),
     PlainBody("garbage", FALSE, "garbage")}

NoBody == PlainBody("other", FALSE, "garbage")

\* a notification that is no match for this instance
IsNonMatching(b) == b \in WellFormedBodies /\ ~IsSelfTermination(b)

\* a text one of whose two envelopes json.loads rejects
IsUnparseable(b) ==
    b.outer = "garbage" \/ (b.outer = "dict" /\ b.hasMessage /\ b.inner = "garbage")

Range(q) == {q[i] : i \in DOMAIN q}

\* what one receive_messages call may return: up to MaxBatch of the visible
\* messages, each once, in any order
Batches(S) ==
    UNION {{q \in [1..n -> S] : \A i, j \in 1..n : i # j => q[i] # q[j]} : n \in 0..MaxBatch}

Visible == {m \in Slots : st[m] = "visible"}

\* the topic publishes a notification: SNS delivers it into the queue
Deliver(b) ==
    /\ queueExists /\ subscribed
    /\ \E m \in Slots :
         /\ st[m] = "absent"
         /\ \A k \in Slots : k < m => st[k] # "absent"
         /\ body' = [body EXCEPT ![m] = b]
         /\ st' = [st EXCEPT ![m] = "visible"]
    /\ UNCHANGED <<delCount, lastBatch, lastResult, polls, termReceived,
                   loopVars, termVars, clsVars, provVars>>

\* queue.py:38: the VisibilityTimeout of a received message runs out and the
\* message, not deleted, is visible again
Redeliver(m) ==
    /\ queueExists
    /\ st[m] = "inflight"
    /\ st' = [st EXCEPT ![m] = "visible"]
    /\ UNCHANGED <<body, delCount, lastBatch, lastResult, polls, termReceived,
                   loopVars, termVars, clsVars, provVars>>

(***************************************************************************)
(* The poll loop around poll_queue.  The loop is not part of queue.py: its *)
(* states and transitions are those of the specification's poll loop.  An  *)
(* exception leaving poll_queue is logged and the loop continues.          *)
(***************************************************************************)
LoopAfterPoll(outcome) ==
    IF Truthy(outcome) THEN "Matched" ELSE "Polling"

\* one iteration of the loop: receive_messages (queue.py:144) and the rest
\* of poll_queue on the batch it returned
Poll(messages) ==
    /\ loop = "Polling"
    /\ queueExists
    /\ messages \in Batches(Visible)
    /\ LET r == poll_queue(messages, body)
           del == Range(r.deleted)
       IN /\ st' = [m \in Slots |->
                      IF m \in del THEN "deleted"
                      ELSE IF m \in Range(messages) THEN "inflight"
                      ELSE st[m]]
          /\ delCount' = [m \in Slots |->
                      delCount[m] + Cardinality({i \in DOMAIN r.deleted : r.deleted[i] = m})]
          /\ lastBatch' = messages
          /\ lastResult' = r.outcome
          /\ polls' = TRUE
          /\ termReceived' =
                (termReceived \/ \E m \in Range(messages) : IsSelfTermination(body[m]))
          /\ loop' = LoopAfterPoll(r.outcome)
          /\ event' = IF Truthy(r.outcome) THEN r.outcome.value ELSE event
          /\ matches' = IF Truthy(r.outcome) THEN matches + 1 ELSE matches
    /\ UNCHANGED <<body, termVars, clsVars, provVars>>

PollAny == \E messages \in Batches(Visible) : Poll(messages)

\* a poll whose receive returns at least one message
PollNonEmpty == \E messages \in Batches(Visible) : messages # <<>> /\ Poll(messages)

RedeliverAny == \E m \in Slots : Redeliver(m)

DeliverAny == \E b \in PollBodies : Deliver(b)

InitCommon ==
    /\ body = [m \in Slots |-> NoBody]
    /\ st = [m \in Slots |-> "absent"]
    /\ delCount = [m \in Slots |-> 0]
    /\ lastBatch = <<>>
    /\ lastResult = NotCalled
    /\ polls = FALSE
    /\ calls = <<>>
    /\ queueExists = TRUE
    /\ subscribed = TRUE
    /\ teardown = NotCalled
    /\ tagsKind = "none"
    /\ tagged = FALSE
    /\ policy = ProvisionedPolicy
    /\ policy0 = ProvisionedPolicy
    /\ create_out = NotCalled
    /\ sub_out = NotCalled
    /\ createRuns = 0
    /\ subRuns = 0
    /\ provCalls = <<>>

\* the poll loop on a provisioned, empty queue
Init ==
    /\ InitCommon
    /\ loop = "Polling"
    /\ termReceived = FALSE
    /\ event = NoEvent
    /\ matches = 0
    /\ cleanupLen = 0
    /\ cleanupLeft = 0
    /\ cls_msg = NoBody
    /\ cls_out = NotCalled

Next == DeliverAny \/ RedeliverAny \/ PollAny

Spec == Init /\ [][Next]_vars

\* the poll loop keeps polling, a receive returns a message when one is
\* visible, and a message received but not deleted becomes visible again
FairSpec ==
    /\ Init /\ [][Next]_vars
    /\ WF_vars(PollNonEmpty)
    /\ \A m \in Slots : WF_vars(Redeliver(m))


(***************************************************************************)
(* should_terminate called on its own, on every text of Messages.          *)
(***************************************************************************)
InitClassify ==
    /\ InitCommon
    /\ loop = "Polling"
    /\ termReceived = FALSE
    /\ event = NoEvent
    /\ matches = 0
    /\ cleanupLen = 0
    /\ cleanupLeft = 0
    /\ cls_msg \in Messages
    /\ cls_out = NotCalled

Classify ==
    /\ cls_out.kind = "none"
    /\ cls_out' = should_terminate(cls_msg)
    /\ UNCHANGED <<cls_msg, chanVars, loopVars, termVars, provVars>>

NextInput ==
    /\ cls_out.kind # "none"
    /\ cls_msg' \in Messages
    /\ cls_out' = NotCalled
    /\ UNCHANGED <<chanVars, loopVars, termVars, provVars>>

NextClassify == Classify \/ NextInput

SpecClassify == InitClassify /\ [][NextClassify]_vars

(***************************************************************************)
(* The loop from Matched on, as the specification's poll loop has it:      *)
(* cleanup runs for cleanupLen heartbeat intervals with a heartbeat at     *)
(* each, then the completion signal, then the teardown.  The matched       *)
(* LifecycleEvent is the input.                                            *)
(***************************************************************************)
MatchedEvents == {LifecycleEvent(b) : b \in {x \in WellFormedBodies : IsSelfTermination(x)}}

InitTerminate ==
    /\ InitCommon
    /\ loop = "Matched"
    /\ termReceived = TRUE
    /\ event \in MatchedEvents
    /\ matches = 1
    /\ cleanupLen \in 0..MaxCleanup
    /\ cleanupLeft = cleanupLen
    /\ cls_msg = NoBody
    /\ cls_out = NotCalled

\* the completion signal sent without waiting for the cleanup
CleanupFinishedEarly == TRUE

\* cleanup has reported finished
CleanupFinished == cleanupLeft = 0

\* Matched -> Terminating: the cleanup hooks start
StartCleanup ==
    /\ loop = "Matched"
    /\ loop' = "Terminating"
    /\ UNCHANGED <<event, matches, chanVars, termVars, clsVars, provVars>>

\* one heartbeat interval passes while the cleanup runs
HeartbeatTick ==
    /\ loop = "Terminating"
    /\ cleanupLeft > 0
    /\ calls' = Append(calls, record_lifecycle_action_heartbeat(event))
    /\ cleanupLeft' = cleanupLeft - 1
    /\ UNCHANGED <<cleanupLen, queueExists, subscribed, teardown, chanVars, loopVars,
                   clsVars, provVars>>

\* Terminating -> ChannelTeardown: the completion signal
Complete ==
    /\ loop = "Terminating"
    /\ CleanupFinished
    /\ calls' = Append(calls, complete_lifecycle_action(event))
    /\ loop' = "ChannelTeardown"
    /\ UNCHANGED <<event, matches, cleanupLen, cleanupLeft, queueExists, subscribed,
                   teardown, chanVars, clsVars, provVars>>

\* clean_up_sns with the unsubscribe call left out
clean_up_sns_no_unsubscribe(delOk, unsubOk) ==
    IF ~delOk
    THEN [outcome |-> Raise("ClientError", 106), queueDeleted |-> FALSE, unsubscribed |-> FALSE]
    ELSE [outcome |-> Return(NoEvent), queueDeleted |-> TRUE, unsubscribed |-> FALSE]

\* clean_up_sns with the two calls in the other order
clean_up_sns_unsubscribe_first(delOk, unsubOk) ==
    IF ~unsubOk
    THEN [outcome |-> Raise("ClientError", 108), queueDeleted |-> FALSE, unsubscribed |-> FALSE]
    ELSE IF ~delOk
    THEN [outcome |-> Raise("ClientError", 106), queueDeleted |-> FALSE, unsubscribed |-> TRUE]
    ELSE [outcome |-> Return(NoEvent), queueDeleted |-> TRUE, unsubscribed |-> TRUE]

\* clean_up_sns, queue.py:103-108.  delOk, unsubOk: whether the service
\* carries out queue.delete() and sns_conn.unsubscribe(); a call it does not
\* carry out raises, and nothing in clean_up_sns catches it.
clean_up_sns(delOk, unsubOk) ==
    \* 106: queue.delete()
    IF ~delOk
    THEN [outcome |-> Raise("ClientError", 106), queueDeleted |-> FALSE, unsubscribed |-> FALSE]
    \* 108: sns_conn.unsubscribe(SubscriptionArn=sns_arn)
    ELSE IF ~unsubOk
    THEN [outcome |-> Raise("ClientError", 108), queueDeleted |-> TRUE, unsubscribed |-> FALSE]
    ELSE [outcome |-> Return(NoEvent), queueDeleted |-> TRUE, unsubscribed |-> TRUE]

\* ChannelTeardown -> Done: the loop calls clean_up_sns; an exception leaving
\* it ends the loop
ChannelTeardown ==
    /\ loop = "ChannelTeardown"
    /\ \E delOk, unsubOk \in BOOLEAN :
         LET r == clean_up_sns(delOk, unsubOk)
         IN /\ queueExists' = (queueExists /\ ~r.queueDeleted)
            /\ subscribed' = (subscribed /\ ~r.unsubscribed)
            /\ teardown' = r.outcome
            /\ loop' = IF r.outcome.kind = "return" THEN "Done" ELSE "Failed"
    /\ UNCHANGED <<event, matches, calls, cleanupLen, cleanupLeft, chanVars, clsVars,
                   provVars>>

NextTerminate == StartCleanup \/ HeartbeatTick \/ Complete \/ ChannelTeardown

SpecTerminate == InitTerminate /\ [][NextTerminate]_vars


(***************************************************************************)
(* Provisioning, called as the functions of the module are: create_queue   *)
(* on a queue name that may or may not exist yet, subscribe_sns on an      *)
(* existing queue with any of InitialPolicies.                             *)
(***************************************************************************)
InitProvision ==
    /\ body = [m \in Slots |-> NoBody]
    /\ st = [m \in Slots |-> "absent"]
    /\ delCount = [m \in Slots |-> 0]
    /\ lastBatch = <<>>
    /\ lastResult = NotCalled
    /\ polls = FALSE
    /\ termReceived = FALSE
    /\ loop = "Provisioning"
    /\ event = NoEvent
    /\ matches = 0
    /\ calls = <<>>
    /\ cleanupLen = 0
    /\ cleanupLeft = 0
    /\ teardown = NotCalled
    /\ cls_msg = NoBody
    /\ cls_out = NotCalled
    /\ tagsKind \in {"none", "dict", "str"}
    /\ tagged = FALSE
    /\ queueExists \in BOOLEAN
    /\ policy \in IF queueExists THEN InitialPolicies ELSE {AbsentPolicy}
    /\ policy0 = policy
    /\ subscribed = FALSE
    /\ create_out = NotCalled
    /\ sub_out = NotCalled
    /\ createRuns = 0
    /\ subRuns = 0
    /\ provCalls = <<>>

CreateQueue ==
    /\ createRuns < MaxRuns
    /\ \E createOk, tagOk \in BOOLEAN :
         LET r == create_queue(tagsKind, createOk, tagOk) IN
         /\ queueExists' = (queueExists \/ r.created)
         /\ tagged' = (tagged \/ r.tagged)
         /\ create_out' = r.outcome
         /\ provCalls' = provCalls \o r.made
    /\ createRuns' = createRuns + 1
    /\ UNCHANGED <<tagsKind, policy, policy0, sub_out, subRuns, subscribed, teardown,
                   calls, cleanupLen, cleanupLeft, chanVars, loopVars, clsVars>>

SubscribeSns ==
    /\ queueExists
    /\ subRuns < MaxRuns
    /\ \E setOk, subOk \in BOOLEAN :
         LET r == subscribe_sns(policy, setOk, subOk) IN
         /\ policy' = IF r.wrote THEN r.written ELSE policy
         /\ subscribed' = (subscribed \/ r.subscribed)
         /\ sub_out' = r.outcome
         /\ provCalls' = provCalls \o r.made
    /\ subRuns' = subRuns + 1
    /\ UNCHANGED <<policy0, tagsKind, tagged, create_out, createRuns, queueExists,
                   teardown, calls, cleanupLen, cleanupLeft, chanVars, loopVars, clsVars>>

NextProvision == CreateQueue \/ SubscribeSns

SpecProvision == InitProvision /\ [][NextProvision]_vars


(***************************************************************************)
(* The claims.                                                             *)
(***************************************************************************)

\* C1 (as claimed): once poll_queue has finished, every message of the batch
\* its receive returned has been deleted exactly once.
EachReceivedDeletedOnce ==
    polls => \A m \in Range(lastBatch) : delCount[m] = 1

\* C2 (as claimed): a batch of one non-matching notification and one
\* notification of this instance's termination, in either order, leaves both
\* messages deleted and poll_queue returns the LifecycleEvent of the match.
BatchOfTwoDrained ==
    \A i, j \in 1..2 :
        ( /\ Len(lastBatch) = 2
          /\ i # j
          /\ IsSelfTermination(body[lastBatch[i]])
          /\ IsNonMatching(body[lastBatch[j]]) )
        => /\ st[lastBatch[i]] = "deleted"
           /\ st[lastBatch[j]] = "deleted"
           /\ lastResult = Return(LifecycleEvent(body[lastBatch[i]]))

\* C3 (as claimed): on a well-formed notification of this instance's
\* termination should_terminate returns the LifecycleEvent with exactly the
\* fields of the notification.
PositiveMatch ==
    (cls_out.kind # "none" /\ IsSelfTermination(cls_msg))
        => cls_out = Return(LifecycleEvent(cls_msg))

\* C4 (as claimed): on a well-formed notification whose target instance is
\* another instance should_terminate returns no match, whatever the
\* transition.
OtherTargetNoMatch ==
    ( /\ cls_out.kind # "none"
      /\ cls_msg \in WellFormedBodies
      /\ cls_msg.hasId
      /\ cls_msg.id # INSTANCE_ID )
        => cls_out = Return(NoEvent)

\* C5 (as claimed): on a well-formed notification whose transition is not the
\* terminating one, or is absent, should_terminate returns no match and does
\* not fail, whatever the target id, also when the target id is absent.
OtherTransitionNoMatch ==
    ( /\ cls_out.kind # "none"
      /\ cls_msg \in WellFormedBodies
      /\ ~(cls_msg.hasTransition /\ cls_msg.transition = termination_msg) )
        => cls_out = Return(NoEvent)

\* C7: no premature termination.  poll_queue returns a truthy value only for a
\* notification of this instance's termination; the loop has left Polling, a
\* lifecycle signal has been sent or the channel has been torn down only if
\* such a notification was received before.
NoPrematureTermination ==
    /\ Truthy(lastResult) =>
          /\ lastBatch # <<>>
          /\ IsSelfTermination(body[Head(lastBatch)])
          /\ lastResult.value = LifecycleEvent(body[Head(lastBatch)])
    /\ (loop # "Polling" \/ calls # <<>> \/ ~queueExists \/ ~subscribed)
          => termReceived

\* C7, its case: messages that are no notification of this instance's
\* termination have been received, an other instance's termination among
\* them, and the loop is polling
NonMatchingPolled ==
    /\ polls
    /\ lastBatch # <<>>
    /\ \A i \in DOMAIN lastBatch : ~IsSelfTermination(body[lastBatch[i]])
    /\ \E i \in DOMAIN lastBatch :
          /\ IsNonMatching(body[lastBatch[i]])
          /\ body[lastBatch[i]].transition = termination_msg
    /\ ~termReceived
    /\ loop = "Polling"
    /\ calls = <<>>

\* the completion calls among the lifecycle API calls, and the heartbeats
\* sent before the i-th call
CompleteCalls == {i \in DOMAIN calls : calls[i].api = "complete_lifecycle_action"}

HeartbeatsBefore(i) ==
    Cardinality({j \in 1..(i - 1) : calls[j].api = "record_lifecycle_action_heartbeat"})

NoHungInstance ==
    \A m \in Slots :
        (st[m] = "visible" /\ IsSelfTermination(body[m]))
            ~> (lastResult = Return(LifecycleEvent(body[m])))

\* C10 (as claimed): a received message with an unparseable envelope ends the
\* poll in an error, has been deleted by that poll, and no lifecycle signal or
\* teardown follows.
MalformedDeletedAndSkipped ==
    (polls /\ lastBatch # <<>> /\ IsUnparseable(body[Head(lastBatch)]))
        => /\ lastResult.kind = "raise"
           /\ st[Head(lastBatch)] = "deleted"
           /\ delCount[Head(lastBatch)] = 1
           /\ loop = "Polling"
           /\ calls = <<>>
           /\ queueExists /\ subscribed


\* C12: once clean_up_sns has returned, the queue has been deleted and the
\* subscription has been removed; clean_up_sns is called only after the
\* completion signal was sent.
TeardownRemovesBoth ==
    /\ teardown.kind = "return" => (~queueExists /\ ~subscribed)
    /\ teardown.kind # "none" => CompleteCalls # {}

\* C12, its case: the loop has completed the lifecycle action and
\* clean_up_sns has returned
TeardownDone ==
    /\ loop = "Done"
    /\ teardown.kind = "return"
    /\ CompleteCalls # {}
    /\ ~queueExists

\* C15: every heartbeat call and every completion call carries the hook name,
\* the group name, the token and the instance id of the matched
\* LifecycleEvent, and every completion call carries the result CONTINUE.
SignalsFromEvent ==
    \A i \in DOMAIN calls :
        /\ calls[i].LifecycleHookName = event.LifecycleHookName
        /\ calls[i].AutoScalingGroupName = event.AutoScalingGroupName
        /\ calls[i].LifecycleActionToken = event.LifecycleActionToken
        /\ calls[i].InstanceId = event.EC2InstanceId
        /\ calls[i].api = "complete_lifecycle_action"
              => calls[i].LifecycleActionResult = "CONTINUE"

\* C15, its case: heartbeats and the completion signal have been sent for an
\* event
BothSignalsSent ==
    /\ event.present
    /\ \E i \in DOMAIN calls : calls[i].api = "record_lifecycle_action_heartbeat"
    /\ \E i \in DOMAIN calls : calls[i].api = "complete_lifecycle_action"

\* C18: the subscription is never removed while the queue still exists, and a
\* failed queue deletion ends clean_up_sns with both still in place.
NoUnsubscribeBeforeDelete ==
    /\ ~subscribed => ~queueExists
    /\ (teardown.kind = "raise" /\ teardown.line = 106) => (queueExists /\ subscribed)

\* C18, its case: the queue deletion has failed
QueueDeletionFailed ==
    /\ teardown.kind = "raise"
    /\ teardown.line = 106
    /\ queueExists
    /\ subscribed

\* C11: after one or more subscribe_sns runs that started from an absent
\* policy, an empty policy or a policy that holds the allow statement, the
\* policy holds exactly one statement with the derived statement id, and the
\* latest run did not fail.
ProvisioningIdempotent ==
    (subRuns >= 1 /\ CleanStart(policy0)) =>
        (policy.kind = "dict" /\ NumAllow(policy) = 1 /\ sub_out.kind = "return")

\* C13: when queue tags are configured, create_queue does not fail in its
\* tagging step (queue.py:41-42): a failure to tag does not keep create_queue
\* from returning the queue.
TagFailureNonFatal ==
    (createRuns >= 1 /\ tagsKind # "none") =>
        ~(create_out.kind = "raise" /\ create_out.line \in {41, 42})

=============================================================================
